---- MODULE Spec2Model ----
(***************************************************************************)
(* Model of the in-memory user store served by code.py: the module-level   *)
(* dictionary users_db and the six route handlers create_user,             *)
(* get_all_users, search_users, get_user, update_user and delete_user.     *)
(*                                                                         *)
(* Spec runs the handlers one request at a time (each action is one whole  *)
(* handler).  ConcSpec runs create_user, get_user, update_user and         *)
(* delete_user on worker threads, one step per dictionary access, the way  *)
(* the framework's thread pool runs plain "def" handlers.                  *)
(***************************************************************************)
EXTENDS Integers, Sequences, FiniteSets, TLC

(***************************************************************************)
(* Bounds.                                                                 *)
(***************************************************************************)
MaxId == 2
NumThreads == 2

Ids == 1..MaxId
Threads == 1..NumThreads

(***************************************************************************)
(* Text.  A str is the sequence of its code points.                        *)
(***************************************************************************)
Bob == <<66, 111, 98>>
bob == <<98, 111, 98>>
Bobby == <<66, 111, 98, 98, 121>>
Empty == <<>>
Phone555 == <<53, 53, 53>>
MainSt == <<77, 97, 105, 110, 32, 83, 116>>

Names == {Bob, Bobby}
Queries == Names \cup {bob}
Phones == {Phone555, Empty}
Addresses == {MainSt}

\* str.lower() on one code point (ASCII range: 'A'..'Z' -> 'a'..'z')
LowerChar(c) == IF c >= 65 /\ c <= 90 THEN c + 32 ELSE c

\* str.lower()
Lower(s) == [i \in 1..Len(s) |-> LowerChar(s[i])]

(***************************************************************************)
(* Optional[str]: None is the empty set, a supplied value v is {v}.        *)
(***************************************************************************)
None == {}
Some(v) == {v}
IsNotNone(o) == o # None
ValueOf(o) == CHOOSE v \in o : TRUE
Optional(S) == {None} \cup {Some(v) : v \in S}

(***************************************************************************)
(* Pydantic models.                                                        *)
(***************************************************************************)
User == [id : Ids, name : Names, phone_no : Phones, address : Addresses]

UpdateUser == [name : Optional(Names), phone_no : Optional(Phones),
               address : Optional(Addresses)]

\* mutant: phone_no and address change places
UserDict_swapped(user) ==
    [id |-> user.id, name |-> user.name, phone_no |-> user.address,
     address |-> user.phone_no]

\* user.dict(): a fresh dict with one key per field of the model
UserDict(user) ==
    [id |-> user.id, name |-> user.name, phone_no |-> user.phone_no,
     address |-> user.address]

(***************************************************************************)
(* Python dict: a sequence of entries in insertion order.                  *)
(***************************************************************************)
DictHas(d, k) == \E i \in 1..Len(d) : d[i].key = k

DictGet(d, k) == d[CHOOSE i \in 1..Len(d) : d[i].key = k].value

\* mutant: every assignment adds an entry
DictSet_append(d, k, v) == Append(d, [key |-> k, value |-> v])

DictSet(d, k, v) ==
    IF DictHas(d, k)
    THEN [i \in 1..Len(d) |-> IF d[i].key = k THEN [key |-> k, value |-> v] ELSE d[i]]
    ELSE Append(d, [key |-> k, value |-> v])

\* mutant: the whole mapping is dropped
DictDel_clear(d, k) == <<>>

DictDel(d, k) == SelectSeq(d, LAMBDA e : e.key # k)

DictValues(d) == [i \in 1..Len(d) |-> d[i].value]

DictKeys(d) == {d[i].key : i \in 1..Len(d)}

(***************************************************************************)
(* Responses.                                                              *)
(***************************************************************************)
HTTP_OK == 200
HTTP_CREATED == 201
HTTP_BAD_REQUEST == 400
HTTP_NOT_FOUND == 404
HTTP_SERVER_ERROR == 500

Message(m) == [message |-> m]
Detail(m) == [detail |-> m]

(***************************************************************************)
(* The handlers as functions of the dictionary: each yields the new        *)
(* dictionary, the status code and the response body.                      *)
(***************************************************************************)
\* mutant: no duplicate check
create_user_overwrite(db, user) ==
    [db |-> DictSet(db, user.id, UserDict(user)), status |-> HTTP_CREATED,
     body |-> Message("User created successfully")]

create_user(db, user) ==
    IF DictHas(db, user.id)
    THEN [db |-> db, status |-> HTTP_BAD_REQUEST, body |-> Detail("User ID already exists")]
    ELSE [db |-> DictSet(db, user.id, UserDict(user)), status |-> HTTP_CREATED,
          body |-> Message("User created successfully")]

get_all_users(db) ==
    [db |-> db, status |-> HTTP_OK, body |-> DictValues(db)]

\* mutant: only the stored name is lowered
search_users_half(db, name) ==
    [db |-> db, status |-> HTTP_OK,
     body |-> SelectSeq(DictValues(db), LAMBDA user : Lower(user.name) = name)]

search_users(db, name) ==
    [db |-> db, status |-> HTTP_OK,
     body |-> SelectSeq(DictValues(db), LAMBDA user : Lower(user.name) = Lower(name))]

get_user(db, id) ==
    IF DictHas(db, id)
    THEN [db |-> db, status |-> HTTP_OK, body |-> DictGet(db, id)]
    ELSE [db |-> db, status |-> HTTP_NOT_FOUND, body |-> Detail("User not found")]

\* mutant: "if user_update.name:" - an empty text counts as absent
ApplyUpdate_truthy(user, user_update) ==
    LET Given(o) == o # None /\ o # Some(Empty)
        u1 == IF Given(user_update.name)
              THEN [user EXCEPT !.name = ValueOf(user_update.name)] ELSE user
        u2 == IF Given(user_update.phone_no)
              THEN [u1 EXCEPT !.phone_no = ValueOf(user_update.phone_no)] ELSE u1
        u3 == IF Given(user_update.address)
              THEN [u2 EXCEPT !.address = ValueOf(user_update.address)] ELSE u2
    IN u3

\* the three assignments of update_user on the stored dict
ApplyUpdate(user, user_update) ==
    LET u1 == IF IsNotNone(user_update.name)
              THEN [user EXCEPT !.name = ValueOf(user_update.name)] ELSE user
        u2 == IF IsNotNone(user_update.phone_no)
              THEN [u1 EXCEPT !.phone_no = ValueOf(user_update.phone_no)] ELSE u1
        u3 == IF IsNotNone(user_update.address)
              THEN [u2 EXCEPT !.address = ValueOf(user_update.address)] ELSE u2
    IN u3

\* mutant: an unknown id is inserted instead of refused
update_user_upsert(db, id, user_update) ==
    LET blank == [id |-> id, name |-> Bob, phone_no |-> Empty, address |-> MainSt] IN
    [db |-> DictSet(db, id, ApplyUpdate(IF DictHas(db, id) THEN DictGet(db, id) ELSE blank,
                                        user_update)),
     status |-> HTTP_OK, body |-> Message("User updated successfully")]

update_user(db, id, user_update) ==
    IF ~DictHas(db, id)
    THEN [db |-> db, status |-> HTTP_NOT_FOUND, body |-> Detail("User not found")]
    ELSE [db |-> DictSet(db, id, ApplyUpdate(DictGet(db, id), user_update)),
          status |-> HTTP_OK, body |-> Message("User updated successfully")]

\* mutant: no existence check
delete_user_unchecked(db, id) ==
    [db |-> DictDel(db, id), status |-> HTTP_OK,
     body |-> Message("User deleted successfully")]

delete_user(db, id) ==
    IF ~DictHas(db, id)
    THEN [db |-> db, status |-> HTTP_NOT_FOUND, body |-> Detail("User not found")]
    ELSE [db |-> DictDel(db, id), status |-> HTTP_OK,
          body |-> Message("User deleted successfully")]

(***************************************************************************)
(* State.                                                                  *)
(***************************************************************************)
VARIABLES
    users_db,   \* the module-level dict: id -> user dict
    resp,       \* Spec: the last request served and its response
    created,    \* Spec: ids for which create_user has returned 201
    deleted,    \* Spec: ids deleted with 200 and not created again since
    pc,         \* ConcSpec: where each worker thread stands in its handler
    req,        \* ConcSpec: the request each worker thread is serving
    status,     \* ConcSpec: the status code each worker thread has returned
    user_ref    \* ConcSpec: update_user's local "user" (a reference to a dict)

seqvars == <<resp, created, deleted>>
thrvars == <<pc, req, status, user_ref>>
vars == <<users_db, resp, created, deleted, pc, req, status, user_ref>>

NoRequest == [op |-> "none", id |-> 0, arg |-> None, status |-> 0, body |-> None]
NoReq == [op |-> "none", id |-> 0, arg |-> None]

Init ==
    /\ users_db = <<>>
    /\ resp = NoRequest
    /\ created = {}
    /\ deleted = {}
    /\ pc = [t \in Threads |-> "idle"]
    /\ req = [t \in Threads |-> NoReq]
    /\ status = [t \in Threads |-> 0]
    /\ user_ref = [t \in Threads |-> "unset"]

(***************************************************************************)
(* Spec: one request at a time, one action per handler.                    *)
(***************************************************************************)
Response(op, id, arg, r) ==
    [op |-> op, id |-> id, arg |-> arg, status |-> r.status, body |-> r.body]

CreateUser ==
    \E user \in User :
        LET r == create_user(users_db, user) IN
        /\ users_db' = r.db
        /\ resp' = Response("create", user.id, user, r)
        /\ created' = IF r.status = HTTP_CREATED THEN created \cup {user.id} ELSE created
        /\ deleted' = IF r.status = HTTP_CREATED THEN deleted \ {user.id} ELSE deleted
        /\ UNCHANGED thrvars

GetAllUsers ==
    LET r == get_all_users(users_db) IN
    /\ users_db' = r.db
    /\ resp' = Response("list", 0, None, r)
    /\ UNCHANGED <<created, deleted>>
    /\ UNCHANGED thrvars

SearchUsers ==
    \E name \in Queries :
        LET r == search_users(users_db, name) IN
        /\ users_db' = r.db
        /\ resp' = Response("search", 0, name, r)
        /\ UNCHANGED <<created, deleted>>
        /\ UNCHANGED thrvars

GetUser ==
    \E id \in Ids :
        LET r == get_user(users_db, id) IN
        /\ users_db' = r.db
        /\ resp' = Response("get", id, None, r)
        /\ UNCHANGED <<created, deleted>>
        /\ UNCHANGED thrvars

UpdateUserById ==
    \E id \in Ids, user_update \in UpdateUser :
        LET r == update_user(users_db, id, user_update) IN
        /\ users_db' = r.db
        /\ resp' = Response("update", id, user_update, r)
        /\ UNCHANGED <<created, deleted>>
        /\ UNCHANGED thrvars

DeleteUser ==
    \E id \in Ids :
        LET r == delete_user(users_db, id) IN
        /\ users_db' = r.db
        /\ resp' = Response("delete", id, None, r)
        /\ deleted' = IF r.status = HTTP_OK THEN deleted \cup {id} ELSE deleted
        /\ UNCHANGED created
        /\ UNCHANGED thrvars

Next ==
    \/ CreateUser
    \/ GetAllUsers
    \/ SearchUsers
    \/ GetUser
    \/ UpdateUserById
    \/ DeleteUser

Spec == Init /\ [][Next]_vars

(***************************************************************************)
(* ConcSpec: create_user, get_user, update_user and delete_user on worker  *)
(* threads.  A thread switch can fall between any two dictionary accesses  *)
(* of a handler, so each access is a step of its own.  A subscript or a    *)
(* del on a key that is gone raises KeyError, which no handler catches:    *)
(* the framework answers 500.                                              *)
(***************************************************************************)
ConcUsers == {u \in User : u.phone_no = Phone555}

ConcUpdates == {u \in UpdateUser : u.name # Some(Bob) /\ u.phone_no # Some(Phone555)
                                   /\ u.address = None}

Requests ==
    {[op |-> "create", id |-> u.id, arg |-> u] : u \in ConcUsers}
    \cup [op : {"get", "delete"}, id : Ids, arg : {None}]
    \cup [op : {"update"}, id : Ids, arg : ConcUpdates]

Goto(t, label) == pc' = [pc EXCEPT ![t] = label]

Return(t, code) ==
    /\ pc' = [pc EXCEPT ![t] = "done"]
    /\ status' = [status EXCEPT ![t] = code]

\* the objects other threads hold: the dict stored under key k leaves the
\* mapping, so a reference to it no longer reaches users_db
Detach(k) ==
    [u \in Threads |-> IF user_ref[u] = "stored" /\ req[u].id = k
                       THEN "detached" ELSE user_ref[u]]

\* a worker thread takes a request off the socket
Begin(t) ==
    /\ pc[t] = "idle"
    /\ \E r \in Requests :
        /\ req' = [req EXCEPT ![t] = r]
        /\ Goto(t, r.op)
    /\ UNCHANGED <<users_db, status, user_ref>>
    /\ UNCHANGED seqvars

\* the response is sent; the thread is free again
End(t) ==
    /\ pc[t] = "done"
    /\ pc' = [pc EXCEPT ![t] = "idle"]
    /\ req' = [req EXCEPT ![t] = NoReq]
    /\ status' = [status EXCEPT ![t] = 0]
    /\ user_ref' = [user_ref EXCEPT ![t] = "unset"]
    /\ UNCHANGED users_db
    /\ UNCHANGED seqvars

\* create_user: if user.id in users_db
CreateCheck(t) ==
    /\ pc[t] = "create"
    /\ IF DictHas(users_db, req[t].id)
       THEN Return(t, HTTP_BAD_REQUEST)
       ELSE Goto(t, "create_store") /\ UNCHANGED status
    /\ UNCHANGED <<users_db, req, user_ref>>
    /\ UNCHANGED seqvars

\* create_user: users_db[user.id] = user.dict(); return
CreateStore(t) ==
    /\ pc[t] = "create_store"
    /\ users_db' = DictSet(users_db, req[t].id, UserDict(req[t].arg))
    /\ user_ref' = IF DictHas(users_db, req[t].id) THEN Detach(req[t].id) ELSE user_ref
    /\ Return(t, HTTP_CREATED)
    /\ UNCHANGED req
    /\ UNCHANGED seqvars

\* get_user: if id in users_db
GetCheck(t) ==
    /\ pc[t] = "get"
    /\ IF DictHas(users_db, req[t].id)
       THEN Goto(t, "get_return") /\ UNCHANGED status
       ELSE Return(t, HTTP_NOT_FOUND)
    /\ UNCHANGED <<users_db, req, user_ref>>
    /\ UNCHANGED seqvars

\* get_user: return users_db[id]
GetReturn(t) ==
    /\ pc[t] = "get_return"
    /\ IF DictHas(users_db, req[t].id)
       THEN Return(t, HTTP_OK)
       ELSE Return(t, HTTP_SERVER_ERROR)
    /\ UNCHANGED <<users_db, req, user_ref>>
    /\ UNCHANGED seqvars

\* update_user: if id not in users_db
UpdateCheck(t) ==
    /\ pc[t] = "update"
    /\ IF ~DictHas(users_db, req[t].id)
       THEN Return(t, HTTP_NOT_FOUND)
       ELSE Goto(t, "update_fetch") /\ UNCHANGED status
    /\ UNCHANGED <<users_db, req, user_ref>>
    /\ UNCHANGED seqvars

\* update_user: user = users_db[id]
UpdateFetch(t) ==
    /\ pc[t] = "update_fetch"
    /\ IF DictHas(users_db, req[t].id)
       THEN /\ user_ref' = [user_ref EXCEPT ![t] = "stored"]
            /\ Goto(t, "update_name")
            /\ UNCHANGED status
       ELSE /\ Return(t, HTTP_SERVER_ERROR)
            /\ UNCHANGED user_ref
    /\ UNCHANGED <<users_db, req>>
    /\ UNCHANGED seqvars

\* user[field] = value on the dict that "user" refers to: the stored dict
\* changes only while the reference still reaches it
StoreField(t, field, value) ==
    IF user_ref[t] = "stored"
    THEN DictSet(users_db, req[t].id,
                 [DictGet(users_db, req[t].id) EXCEPT ![field] = value])
    ELSE users_db

\* update_user: if user_update.name is not None: user["name"] = ...
UpdateName(t) ==
    /\ pc[t] = "update_name"
    /\ users_db' = IF IsNotNone(req[t].arg.name)
                   THEN StoreField(t, "name", ValueOf(req[t].arg.name))
                   ELSE users_db
    /\ Goto(t, "update_phone_no")
    /\ UNCHANGED <<req, status, user_ref>>
    /\ UNCHANGED seqvars

\* update_user: if user_update.phone_no is not None: user["phone_no"] = ...
UpdatePhoneNo(t) ==
    /\ pc[t] = "update_phone_no"
    /\ users_db' = IF IsNotNone(req[t].arg.phone_no)
                   THEN StoreField(t, "phone_no", ValueOf(req[t].arg.phone_no))
                   ELSE users_db
    /\ Goto(t, "update_address")
    /\ UNCHANGED <<req, status, user_ref>>
    /\ UNCHANGED seqvars

\* update_user: if user_update.address is not None: user["address"] = ...; return
UpdateAddress(t) ==
    /\ pc[t] = "update_address"
    /\ users_db' = IF IsNotNone(req[t].arg.address)
                   THEN StoreField(t, "address", ValueOf(req[t].arg.address))
                   ELSE users_db
    /\ Return(t, HTTP_OK)
    /\ UNCHANGED <<req, user_ref>>
    /\ UNCHANGED seqvars

\* delete_user: if id not in users_db
DeleteCheck(t) ==
    /\ pc[t] = "delete"
    /\ IF ~DictHas(users_db, req[t].id)
       THEN Return(t, HTTP_NOT_FOUND)
       ELSE Goto(t, "delete_del") /\ UNCHANGED status
    /\ UNCHANGED <<users_db, req, user_ref>>
    /\ UNCHANGED seqvars

\* delete_user: del users_db[id]; return
DeleteDel(t) ==
    /\ pc[t] = "delete_del"
    /\ IF DictHas(users_db, req[t].id)
       THEN /\ users_db' = DictDel(users_db, req[t].id)
            /\ user_ref' = Detach(req[t].id)
            /\ Return(t, HTTP_OK)
       ELSE /\ Return(t, HTTP_SERVER_ERROR)
            /\ UNCHANGED <<users_db, user_ref>>
    /\ UNCHANGED req
    /\ UNCHANGED seqvars

ConcNext ==
    \E t \in Threads :
        \/ Begin(t)
        \/ End(t)
        \/ CreateCheck(t)
        \/ CreateStore(t)
        \/ GetCheck(t)
        \/ GetReturn(t)
        \/ UpdateCheck(t)
        \/ UpdateFetch(t)
        \/ UpdateName(t)
        \/ UpdatePhoneNo(t)
        \/ UpdateAddress(t)
        \/ DeleteCheck(t)
        \/ DeleteDel(t)

ConcSpec == Init /\ [][ConcNext]_vars

TypeOK ==
    /\ \A i \in 1..Len(users_db) : users_db[i].key \in Ids /\ users_db[i].value \in User
    /\ created \subseteq Ids
    /\ deleted \subseteq Ids

(***************************************************************************)
(* Properties of Spec.                                                     *)
(***************************************************************************)

\* C1: create_user with an id that is not stored answers 201, and a get_user
\* for that id served next answers 200 with the id, name, phone_no and
\* address of the record that was created.
C1_CreateThenGet ==
    [][ /\ (resp'.op = "create" /\ ~DictHas(users_db, resp'.id))
            => resp'.status = HTTP_CREATED
        /\ (resp.op = "create" /\ resp.status = HTTP_CREATED
            /\ resp'.op = "get" /\ resp'.id = resp.arg.id)
            => /\ resp'.status = HTTP_OK
               /\ resp'.body.id = resp.arg.id
               /\ resp'.body.name = resp.arg.name
               /\ resp'.body.phone_no = resp.arg.phone_no
               /\ resp'.body.address = resp.arg.address ]_vars

C1_Witness ==
    /\ resp.op = "get"
    /\ resp.status = HTTP_OK
    /\ resp.id \in created
    /\ resp.body.phone_no = Empty
    /\ Len(users_db) = 2

\* C2: create_user with an id that is stored answers 400 and leaves the
\* dictionary as it was: same keys, same order, same fields.
C2_DuplicateCreateRejected ==
    [][ (resp'.op = "create" /\ DictHas(users_db, resp'.id))
            => (resp'.status = HTTP_BAD_REQUEST /\ users_db' = users_db) ]_vars

C2_Witness ==
    /\ resp.op = "create"
    /\ resp.status = HTTP_BAD_REQUEST
    /\ DictHas(users_db, resp.id)
    /\ DictGet(users_db, resp.id).name # resp.arg.name
    /\ DictGet(users_db, resp.id).phone_no # resp.arg.phone_no

\* C3: update_user on a stored id answers 200; each of name, phone_no and
\* address that the request carries (the empty text included) becomes the
\* stored value, each one it does not carry keeps its value, and so does id.
C3_UpdateSetsExactlyGivenFields ==
    [][ (resp'.op = "update" /\ DictHas(users_db, resp'.id))
            => LET p == resp'.arg
                   old == DictGet(users_db, resp'.id)
               IN /\ resp'.status = HTTP_OK
                  /\ DictHas(users_db', resp'.id)
                  /\ LET new == DictGet(users_db', resp'.id)
                     IN /\ new.id = old.id
                        /\ IF p.name = None THEN new.name = old.name
                                            ELSE p.name = {new.name}
                        /\ IF p.phone_no = None THEN new.phone_no = old.phone_no
                                                ELSE p.phone_no = {new.phone_no}
                        /\ IF p.address = None THEN new.address = old.address
                                               ELSE p.address = {new.address} ]_vars

C3_Witness ==
    /\ resp.op = "update"
    /\ resp.status = HTTP_OK
    /\ resp.arg.name = None
    /\ resp.arg.phone_no = {Empty}
    /\ DictGet(users_db, resp.id).phone_no = Empty
    /\ DictGet(users_db, resp.id).name = Bobby

\* C4: update_user and delete_user with an id that is not stored answer 404
\* and leave the dictionary as it was.
C4_UnknownIdRefused ==
    [][ (resp'.op \in {"update", "delete"} /\ ~DictHas(users_db, resp'.id))
            => (resp'.status = HTTP_NOT_FOUND /\ users_db' = users_db) ]_vars

C4_Witness ==
    /\ resp.op = "delete"
    /\ resp.status = HTTP_NOT_FOUND
    /\ resp.id \in deleted
    /\ Len(users_db) >= 1

\* C5: from a delete_user that answered 200 until a create_user with the same
\* id answers 201, get_user answers 404 for that id and get_all_users lists no
\* record with it; the delete itself keeps every record stored under
\* another id in the list.
C5_DeletedStaysGone ==
    /\ [](\A id \in deleted :
            /\ get_user(users_db, id).status = HTTP_NOT_FOUND
            /\ \A i \in 1..Len(get_all_users(users_db).body) :
                   get_all_users(users_db).body[i].id # id
            /\ (resp.op = "get" /\ resp.id = id) => resp.status = HTTP_NOT_FOUND
            /\ resp.op = "list" => \A i \in 1..Len(resp.body) : resp.body[i].id # id)
    /\ [][ (resp'.op = "delete" /\ resp'.status = HTTP_OK)
              => \A i \in 1..Len(users_db) :
                     users_db[i].key # resp'.id
                     => \E j \in 1..Len(get_all_users(users_db').body) :
                            get_all_users(users_db').body[j] = users_db[i].value ]_vars

C5_Witness ==
    /\ resp.op = "list"
    /\ deleted # {}
    /\ Len(resp.body) >= 1

\* C6: an id for which no create_user has answered 201 is not stored, and
\* get_user answers 404 for it, whatever other requests were served.
C6_NeverCreatedNotFound ==
    \A id \in Ids \ created :
        /\ ~DictHas(users_db, id)
        /\ get_user(users_db, id).status = HTTP_NOT_FOUND
        /\ (resp.op = "get" /\ resp.id = id) => resp.status = HTTP_NOT_FOUND

C6_Witness ==
    /\ resp.op = "update"
    /\ resp.id \notin created
    /\ resp.arg.name # None
    /\ created # {}

\* two texts that differ at most in the case of their ASCII letters
SameIgnoringCase(a, b) ==
    /\ Len(a) = Len(b)
    /\ \A i \in 1..Len(a) :
        \/ a[i] = b[i]
        \/ a[i] \in 65..90 /\ b[i] = a[i] + 32
        \/ b[i] \in 65..90 /\ a[i] = b[i] + 32

\* C7: search_users answers 200 for every name, with exactly the stored
\* records whose name is the given one up to letter case; names that differ
\* only in case get the same answer, a stored name that is longer than the
\* given one is left out, and the dictionary is not changed.
C7_SearchExactIgnoringCase ==
    /\ \A name \in Queries :
        LET r == search_users(users_db, name) IN
        /\ r.status = HTTP_OK
        /\ r.db = users_db
        /\ r.body = SelectSeq(DictValues(users_db),
                              LAMBDA u : SameIgnoringCase(u.name, name))
        /\ \A i \in 1..Len(r.body) : Len(r.body[i].name) = Len(name)
        /\ \A other \in Queries :
               SameIgnoringCase(name, other) => search_users(users_db, other).body = r.body
    /\ resp.op = "search"
        => /\ resp.status = HTTP_OK
           /\ resp.body = SelectSeq(DictValues(users_db),
                                    LAMBDA u : SameIgnoringCase(u.name, resp.arg))

C7_Witness ==
    /\ resp.op = "search"
    /\ resp.arg = bob
    /\ Len(resp.body) = 1
    /\ resp.body[1].name = Bob
    /\ \E i \in 1..Len(users_db) : users_db[i].value.name = Bobby

\* C8: no two entries of the dictionary have the same key, and the record
\* stored under a key has that key as its id, in every state: no request
\* changes a stored id or moves a record to another key.
C8_KeyIsId ==
    /\ \A i, j \in 1..Len(users_db) : users_db[i].key = users_db[j].key => i = j
    /\ \A i \in 1..Len(users_db) : users_db[i].value.id = users_db[i].key

C8_Witness ==
    /\ resp.op = "update"
    /\ resp.status = HTTP_OK
    /\ resp.arg.name # None
    /\ Len(users_db) = 2

(***************************************************************************)
(* Properties of ConcSpec.                                                 *)
(***************************************************************************)
Outcomes(op) ==
    IF op = "create" THEN {HTTP_CREATED, HTTP_BAD_REQUEST} ELSE {HTTP_OK, HTTP_NOT_FOUND}

\* C9: whatever the interleaving, a request ends in success, in 400 (create)
\* or in 404 (get, update, delete), and in nothing else; two deletes of one
\* stored id that overlap end in one 200 and one 404.
C9_OnlyTaxonomyOutcomes ==
    \A t \in Threads : pc[t] = "done" => status[t] \in Outcomes(req[t].op)

\* C10: the mapping is guarded, so of the creates that carry one id and
\* overlap only one answers 201: a create that answers 201 wrote to a key
\* that was not stored when it wrote.
C10_AcknowledgedCreateIsFirst ==
    [][ \A t \in Threads :
            (pc[t] = "create_store" /\ pc'[t] = "done")
                => ~DictHas(users_db, req[t].id) ]_vars
====
